---- MODULE Spec2Model ----
(***************************************************************************)
(* Model of the FormS physical execution layer: the approximate-match      *)
(* lookup family (lookupfuncexecutor.py, vlookup_approx.py, utils.py), the *)
(* partitioning helpers get_df_bins / get_value_bins (utils.py) and the    *)
(* execution tree (executionnode.py), and of the plan rewriter             *)
(* (planrewriter.py).                                                      *)
(*                                                                         *)
(* Conventions.  Python indices are 0-based and kept 0-based here; a       *)
(* sequence s is read at Python index i with At(s, i).  Key, query and     *)
(* result values are integers (the numeric case, in which the float        *)
(* promotion of a result column that holds a missing row succeeds).  A     *)
(* call's outcome is a record: status "ok" with one row per query, or      *)
(* status "error" when the call raises.  A row is Missing (NaN) or         *)
(* Found(v).                                                               *)
(*                                                                         *)
(* Specifications.  SpecLookup: the ten lookup functions applied to one    *)
(* key column, result column and query column; call and prev_call hold the *)
(* two most recent calls.  SpecDfBins: get_df_bins, one loop iteration per *)
(* step.  SpecValueBins: get_value_bins.  SpecTree: an execution tree T,   *)
(* its gen_exec_subtree clones and the set_exec_context / set_metadata /   *)
(* set_offset calls on their nodes, with node objects held by identity in  *)
(* heap.  The table handle of a reference node and the formula-string      *)
(* information copied by copy_formula_string_info_from are not modelled.   *)
(* SpecRewrite: PlanRewriter.rewrite_plan (planrewriter.py), one call of   *)
(* rule.rewrite per step, over plan nodes held by identity in rw.nodes.    *)
(* SpecCombine: combine_results (utils.py) on the results of MaxParts      *)
(* partitions, supplied in any order.  SpecSortMerge: the loops of         *)
(* lookup_sort_merge, one test of a loop condition per step.               *)
(***************************************************************************)
EXTENDS Integers, Sequences, FiniteSets, TLC

\* ---------------------------------------------------------------- bounds
MaxKeys == 3
MaxKey == 3
MaxQueries == 2
MaxSize == 3
MaxRows == 10
MaxDup == 2
MaxCores == 5
MaxClones == 2
MaxCalls == 2

VARIABLES
    search_range,   \* the key column K (sorted ascending)
    result_range,   \* the result column, aligned with search_range
    values,         \* the query keys
    call,           \* the most recent lookup call: [impl, size, res]
    prev_call,      \* the lookup call before it
    num_cores,      \* get_df_bins / get_value_bins: the number of cores
    loop_i,         \* get_df_bins: the loop variable i
    idx_bins,       \* the boundary indices built so far
    bins,           \* the boundary key values built so far
    bins_pc,        \* "idle" | "loop" | "returned" | "error"
    heap,           \* the execution nodes, by object identity
    roots,          \* the trees: <<T, its clones in creation order>>
    last,           \* the most recent call on the execution trees
    calls,          \* the number of mutating calls made so far
    rw,             \* PlanRewriter.rewrite_plan: its locals, the plan nodes, the rule log
    comb,           \* combine_results: the partition results and the output
    sm              \* lookup_sort_merge: its locals, one loop step at a time

inputs == <<search_range, result_range, values>>
lookup_vars == <<call, prev_call>>
bins_vars == <<num_cores, loop_i, idx_bins, bins, bins_pc>>
tree_vars == <<heap, roots, last, calls>>
stage_vars == <<rw, comb, sm>>
vars == <<inputs, lookup_vars, bins_vars, tree_vars, stage_vars>>

\* ------------------------------------------------------- Python helpers
At(s, i) == s[i + 1]

\* Python / numpy indexing with a possibly negative index (s[-1] is the last).
PyIndexOk(s, i) == (0 - Len(s)) <= i /\ i < Len(s)
PyAt(s, i) == IF i >= 0 THEN s[i + 1] ELSE s[Len(s) + i + 1]

Min2(a, b) == IF a <= b THEN a ELSE b

Missing == [missing |-> TRUE, val |-> 0]
Found(v) == [missing |-> FALSE, val |-> v]

Ok(rows) == [status |-> "ok", rows |-> rows]
Raised == [status |-> "error", rows |-> <<>>]

\* df: the two-column table (key, result); df.iloc[r, c] is PyAt(df[..], c).
MakeDf(keys, results) == [j \in 1..Len(keys) |-> <<keys[j], results[j]>>]
KeyColumn(df) == [j \in 1..Len(df) |-> df[j][1]]

\* np.searchsorted(a, v, side="left"): the index i with a[:i] < v <= a[i:].
searchsorted(a, v) ==
    CHOOSE i \in 0..Len(a) :
        /\ \A j \in 0..(i - 1) : At(a, j) < v
        /\ \A j \in i..(Len(a) - 1) : At(a, j) >= v

\* -------------------------------------------------- approx_binary_search
RECURSIVE approx_binary_search_loop(_, _, _, _)
approx_binary_search_loop(value, arr, low, high) ==
    IF low <= high
    THEN LET mid == (high + low) \div 2
         IN  IF At(arr, mid) < value
             THEN approx_binary_search_loop(value, arr, mid + 1, high)
             ELSE IF At(arr, mid) > value
                  THEN approx_binary_search_loop(value, arr, low, mid - 1)
                  ELSE mid
    ELSE (high + low) \div 2

\* [raised |-> the assertion len(arr) > 0 failed, idx |-> the returned index]
approx_binary_search(value, arr) ==
    IF Len(arr) = 0
    THEN [raised |-> TRUE, idx |-> 0]
    ELSE IF value < At(arr, 0)
         THEN [raised |-> FALSE, idx |-> -1]
         ELSE [raised |-> FALSE,
               idx |-> approx_binary_search_loop(value, arr, 0, Len(arr) - 1)]

\* ------------------------------------------------- lookupfuncexecutor.py
lookup_binary_search(vals, sr, rr) ==
    LET found == [i \in 1..Len(vals) |-> approx_binary_search(vals[i], sr)]
    IN  IF \E i \in 1..Len(vals) : found[i].raised
        THEN Raised
        ELSE Ok([i \in 1..Len(vals) |->
                    IF found[i].idx # -1
                    THEN Found(At(rr, found[i].idx))
                    ELSE Missing])

\* The scalar boundary correction shared by the searchsorted loops.
corrected_idx(value, value_idx, sr) ==
    IF value_idx >= Len(sr) \/ value # At(sr, value_idx)
    THEN value_idx - 1
    ELSE value_idx

lookup_binary_search_np(vals, sr, rr) ==
    LET value_idxes == [i \in 1..Len(vals) |-> searchsorted(sr, vals[i])]
    IN  Ok([i \in 1..Len(vals) |->
              LET value_idx == corrected_idx(vals[i], value_idxes[i], sr)
              IN  IF value_idx # -1 THEN Found(At(rr, value_idx)) ELSE Missing])

\* adjusted_idxes of the vectorized path: value_idxes - combined.
adjusted_idxes(vals, sr) ==
    [i \in 1..Len(vals) |->
        LET value_idx == searchsorted(sr, vals[i])
            greater_than_length == value_idx >= Len(sr)
            value_idx_no_oob == Min2(value_idx, Len(sr) - 1)
            approximate_match == vals[i] # PyAt(sr, value_idx_no_oob)
        IN  IF greater_than_length \/ approximate_match
            THEN value_idx - 1
            ELSE value_idx]

\* The row written for an adjusted index: NaN is put where it is -1.
nan_put(taken, adjusted_idx) == IF adjusted_idx = -1 THEN Missing ELSE Found(taken)

lookup_binary_search_np_vector(vals, sr, rr) ==
    \* np.take(search_range, value_idxes_no_oob) raises on an empty column
    IF \E i \in 1..Len(vals) :
           ~PyIndexOk(sr, Min2(searchsorted(sr, vals[i]), Len(sr) - 1))
    THEN Raised
    ELSE LET adjusted == adjusted_idxes(vals, sr)
         IN  Ok([i \in 1..Len(vals) |->
                    nan_put(PyAt(rr, adjusted[i]), adjusted[i])])

lookup_df_executor(vals, sr, rr) == lookup_binary_search_np_vector(vals, sr, rr)

\* sorted_values: list(enumerate(values)) sorted (stably) by value, as a
\* sequence of [pos |-> original position, val |-> value].
RECURSIVE insert_sorted(_, _)
insert_sorted(s, e) ==
    IF s = <<>> THEN <<e>>
    ELSE IF s[Len(s)].val <= e.val
         THEN Append(s, e)
         ELSE Append(insert_sorted(SubSeq(s, 1, Len(s) - 1), e), s[Len(s)])

RECURSIVE sorted_enumerate_upto(_, _)
sorted_enumerate_upto(vals, n) ==
    IF n = 0 THEN <<>>
    ELSE insert_sorted(sorted_enumerate_upto(vals, n - 1),
                       [pos |-> n - 1, val |-> vals[n]])

sorted_enumerate(vals) == sorted_enumerate_upto(vals, Len(vals))

\* while right_idx < len(search_range) and search_range[right_idx] <= searching_val
RECURSIVE sort_merge_advance_right(_, _, _)
sort_merge_advance_right(sr, right_idx, searching_val) ==
    IF right_idx < Len(sr) /\ At(sr, right_idx) <= searching_val
    THEN sort_merge_advance_right(sr, right_idx + 1, searching_val)
    ELSE right_idx

\* while left_idx < len(values) and sorted_values[left_idx][1] < stop_val
\* (stop_val is np.infty when right_idx = len(search_range))
RECURSIVE sort_merge_fill(_, _, _, _, _)
sort_merge_fill(sorted_values, sr, rr, right_idx, st) ==
    IF /\ st.left_idx < Len(sorted_values)
       /\ (right_idx < Len(sr) =>
               At(sorted_values, st.left_idx).val < At(sr, right_idx))
    THEN sort_merge_fill(sorted_values, sr, rr, right_idx,
            [left_idx |-> st.left_idx + 1,
             df_arr |-> IF right_idx # 0
                        THEN [st.df_arr EXCEPT
                                 ![At(sorted_values, st.left_idx).pos + 1] =
                                     Found(At(rr, right_idx - 1))]
                        ELSE st.df_arr])
    ELSE st

\* One iteration of the outer loop, on [left_idx, right_idx, df_arr].
sort_merge_outer(sorted_values, sr, rr, st) ==
    LET searching_val == At(sorted_values, st.left_idx).val
        right_idx == sort_merge_advance_right(sr, st.right_idx, searching_val)
        filled == sort_merge_fill(sorted_values, sr, rr, right_idx,
                     [left_idx |-> st.left_idx, df_arr |-> st.df_arr])
    IN  [left_idx |-> filled.left_idx, right_idx |-> right_idx,
         df_arr |-> filled.df_arr]

RECURSIVE sort_merge_run(_, _, _, _)
sort_merge_run(sorted_values, sr, rr, st) ==
    IF st.left_idx < Len(sorted_values)
    THEN sort_merge_run(sorted_values, sr, rr,
                        sort_merge_outer(sorted_values, sr, rr, st))
    ELSE st

lookup_sort_merge(vals, sr, rr) ==
    Ok(sort_merge_run(sorted_enumerate(vals), sr, rr,
          [left_idx |-> 0, right_idx |-> 0,
           df_arr |-> [i \in 1..Len(vals) |-> Missing]]).df_arr)

\* --------------------------------------------------- vlookup_approx.py
vlookup_approx(vals, df, col_idxes) ==
    LET found == [i \in 1..Len(vals) |->
                     approx_binary_search(vals[i], KeyColumn(df))]
    IN  IF \E i \in 1..Len(vals) : found[i].raised
        THEN Raised
        ELSE Ok([i \in 1..Len(vals) |->
                    IF found[i].idx # -1
                    THEN Found(At(At(df, found[i].idx), col_idxes[i] - 1))
                    ELSE Missing])

vlookup_approx_np(vals, df, col_idxes) ==
    LET sr == KeyColumn(df)
        value_idxes == [i \in 1..Len(vals) |-> searchsorted(sr, vals[i])]
    IN  Ok([i \in 1..Len(vals) |->
              LET value_idx == corrected_idx(vals[i], value_idxes[i], sr)
              IN  IF value_idx # -1
                  THEN Found(At(At(df, value_idx), col_idxes[i] - 1))
                  ELSE Missing])

\* The guard of the second pass of vlookup_approx_np_lc compares the whole
\* list value_idxes with -1; a list never equals an integer.
list_differs_from_int(lst, n) == TRUE

vlookup_approx_np_lc(vals, df, col_idxes) ==
    LET sr == KeyColumn(df)
        searched == [i \in 1..Len(vals) |-> searchsorted(sr, vals[i])]
        value_idxes == [i \in 1..Len(vals) |->
                           corrected_idx(vals[i], searched[i], sr)]
    IN  IF \E i \in 1..Len(vals) :
               list_differs_from_int(value_idxes, -1)
               /\ ~PyIndexOk(df, value_idxes[i])
        THEN Raised
        ELSE Ok([i \in 1..Len(vals) |->
                    IF list_differs_from_int(value_idxes, -1)
                    THEN Found(At(PyAt(df, value_idxes[i]), col_idxes[i] - 1))
                    ELSE Missing])

vlookup_approx_np_vector(vals, df, col_idxes) ==
    LET sr == KeyColumn(df)
    IN  IF \E i \in 1..Len(vals) :
               ~PyIndexOk(sr, Min2(searchsorted(sr, vals[i]), Len(sr) - 1))
        THEN Raised
        ELSE LET adjusted == adjusted_idxes(vals, sr)
             IN  Ok([i \in 1..Len(vals) |->
                       nan_put(At(PyAt(df, adjusted[i]), col_idxes[i] - 1),
                               adjusted[i])])

\* pd.merge_asof(left, right, on="join_col"), direction backward: the last
\* right row whose key is <= the left key, or no row (NaN columns); with an
\* empty right table no left row finds one.
merge_asof_row(keys, value) ==
    Cardinality({j \in 0..(Len(keys) - 1) : At(keys, j) <= value}) - 1

vlookup_approx_pd_merge(vals, df, col_idxes) ==
    LET keys == KeyColumn(df)
    IN  Ok([i \in 1..Len(vals) |->
              LET row == merge_asof_row(keys, vals[i])
              IN  IF row = -1
                  THEN Missing
                  ELSE Found(At(At(df, row), col_idxes[i] - 1))])

\* The row vlookup_approx_constants settles on after the search.
constants_row_idx(value, df, sz) ==
    LET row_idx == searchsorted(KeyColumn(df), value)
    IN  IF row_idx = sz THEN row_idx - 1
        ELSE IF At(df, row_idx)[1] # value THEN row_idx - 1
        ELSE row_idx

vlookup_approx_constants(value, df, col_idx, sz) ==
    IF Len(df) = 0
    THEN Raised                       \* df.iloc[0, 0] on an empty table
    ELSE IF value < At(df, 0)[1]
         THEN Ok([i \in 1..sz |-> Missing])
         ELSE LET row_idx == searchsorted(KeyColumn(df), value)
              IN  IF row_idx # sz /\ ~PyIndexOk(df, row_idx)
                  THEN Raised         \* df.iloc[row_idx, 0] out of bounds
                  ELSE Ok([i \in 1..sz |->
                            Found(At(PyAt(df, constants_row_idx(value, df, sz)),
                                     col_idx - 1))])

\* ------------------------------------------------------ the lookup calls
NoCall == [impl |-> "none", size |-> 0, res |-> Raised]

\* Sorted ascending key columns (duplicates allowed), the empty one included.
IsSorted(s) == \A j \in 1..(Len(s) - 1) : s[j] <= s[j + 1]
SeqsUpTo(S, n) == UNION {[1..k -> S] : k \in 0..n}
KeyColumns == {s \in SeqsUpTo(1..MaxKey, MaxKeys) : IsSorted(s)}
QueryColumns == {s \in SeqsUpTo(0..(MaxKey + 1), MaxQueries) : Len(s) >= 1}

\* The result column tags every row with a value of its own, so that the row
\* a result was read from is visible in the result.
RowTags(n) == [j \in 1..n |-> 100 + j - 1]

TheDf == MakeDf(search_range, result_range)
ColIdxes == [i \in 1..Len(values) |-> 2]

CallOf(impl, sz, res) == [impl |-> impl, size |-> sz, res |-> res]

LookupDfExecutor ==
    /\ call' = CallOf("lookup_df_executor", Len(values),
           lookup_df_executor(values, search_range, result_range))
    /\ prev_call' = call
    /\ UNCHANGED <<stage_vars, inputs, bins_vars, tree_vars>>

LookupBinarySearch ==
    /\ call' = CallOf("lookup_binary_search", Len(values),
           lookup_binary_search(values, search_range, result_range))
    /\ prev_call' = call
    /\ UNCHANGED <<stage_vars, inputs, bins_vars, tree_vars>>

LookupBinarySearchNp ==
    /\ call' = CallOf("lookup_binary_search_np", Len(values),
           lookup_binary_search_np(values, search_range, result_range))
    /\ prev_call' = call
    /\ UNCHANGED <<stage_vars, inputs, bins_vars, tree_vars>>

LookupBinarySearchNpVector ==
    /\ call' = CallOf("lookup_binary_search_np_vector", Len(values),
           lookup_binary_search_np_vector(values, search_range, result_range))
    /\ prev_call' = call
    /\ UNCHANGED <<stage_vars, inputs, bins_vars, tree_vars>>

LookupSortMerge ==
    /\ call' = CallOf("lookup_sort_merge", Len(values),
           lookup_sort_merge(values, search_range, result_range))
    /\ prev_call' = call
    /\ UNCHANGED <<stage_vars, inputs, bins_vars, tree_vars>>

VlookupApprox ==
    /\ call' = CallOf("vlookup_approx", Len(values), vlookup_approx(values, TheDf, ColIdxes))
    /\ prev_call' = call
    /\ UNCHANGED <<stage_vars, inputs, bins_vars, tree_vars>>

VlookupApproxNp ==
    /\ call' = CallOf("vlookup_approx_np", Len(values),
           vlookup_approx_np(values, TheDf, ColIdxes))
    /\ prev_call' = call
    /\ UNCHANGED <<stage_vars, inputs, bins_vars, tree_vars>>

VlookupApproxNpLc ==
    /\ call' = CallOf("vlookup_approx_np_lc", Len(values),
           vlookup_approx_np_lc(values, TheDf, ColIdxes))
    /\ prev_call' = call
    /\ UNCHANGED <<stage_vars, inputs, bins_vars, tree_vars>>

VlookupApproxNpVector ==
    /\ call' = CallOf("vlookup_approx_np_vector", Len(values),
           vlookup_approx_np_vector(values, TheDf, ColIdxes))
    /\ prev_call' = call
    /\ UNCHANGED <<stage_vars, inputs, bins_vars, tree_vars>>

VlookupApproxPdMerge ==
    /\ call' = CallOf("vlookup_approx_pd_merge", Len(values),
           vlookup_approx_pd_merge(values, TheDf, ColIdxes))
    /\ prev_call' = call
    /\ UNCHANGED <<stage_vars, inputs, bins_vars, tree_vars>>

\* The broadcast variant takes one query key and an output size.
VlookupApproxConstants ==
    /\ \A i \in 1..Len(values) : values[i] = values[1]
    /\ \E sz \in 1..MaxSize :
          call' = CallOf("vlookup_approx_constants", sz,
                         vlookup_approx_constants(values[1], TheDf, 2, sz))
    /\ prev_call' = call
    /\ UNCHANGED <<stage_vars, inputs, bins_vars, tree_vars>>

LookupIdle == call = NoCall /\ prev_call = NoCall

BinsIdle ==
    /\ num_cores = 0
    /\ loop_i = 0
    /\ idx_bins = <<>>
    /\ bins = <<>>
    /\ bins_pc = "idle"

NoTreeCall == [op |-> "none", node |-> 0, ctx |-> "None"]

TreeIdle ==
    /\ heap = <<>>
    /\ roots = <<>>
    /\ last = NoTreeCall
    /\ calls = 0

InputsIdle ==
    /\ search_range = <<>>
    /\ result_range = <<>>
    /\ values = <<>>

RewriteIdle == rw = [pc |-> "idle"]
CombineIdle == comb = [pc |-> "idle"]
SortMergeIdle == sm = [pc |-> "idle"]

InitLookup ==
    /\ RewriteIdle
    /\ CombineIdle
    /\ SortMergeIdle
    /\ search_range \in KeyColumns
    /\ result_range = RowTags(Len(search_range))
    /\ values \in QueryColumns
    /\ call = NoCall
    /\ prev_call = NoCall
    /\ BinsIdle
    /\ TreeIdle

NextLookup ==
    \/ LookupDfExecutor
    \/ LookupBinarySearch
    \/ LookupBinarySearchNp
    \/ LookupBinarySearchNpVector
    \/ LookupSortMerge
    \/ VlookupApprox
    \/ VlookupApproxNp
    \/ VlookupApproxNpLc
    \/ VlookupApproxNpVector
    \/ VlookupApproxPdMerge
    \/ VlookupApproxConstants

SpecLookup == InitLookup /\ [][NextLookup]_vars

\* ------------------------------------------------------------ get_df_bins
end_idx_rounded_up(i, rows, cores) == ((i + 1) * rows + cores - 1) \div cores

\* end_idx = ((i + 1) * df.shape[0]) // num_cores
end_idx(i, rows, cores) == ((i + 1) * rows) \div cores

\* search_keys[label] on the key Series (default RangeIndex): a label outside
\* 0..len-1, -1 included, raises KeyError.
HasLabel(keys, label) == 0 <= label /\ label < Len(keys)

\* Key columns of the partitioned table: rowCount rows in sorted runs of
\* equal keys.
DfKeyColumns ==
    {[j \in 1..n |-> (j - 1) \div d] : n \in 1..MaxRows, d \in 1..MaxDup}

InitDfBins ==
    /\ RewriteIdle
    /\ CombineIdle
    /\ SortMergeIdle
    /\ search_range \in DfKeyColumns
    /\ result_range = RowTags(Len(search_range))
    /\ values = <<>>
    /\ LookupIdle
    /\ num_cores \in 1..MaxCores
    /\ loop_i = 0
    /\ idx_bins = <<0>>
    /\ bins = <<>>
    /\ bins_pc = "loop"
    /\ TreeIdle

\* One iteration of `for i in range(num_cores)`.
DfBinsIterate ==
    /\ bins_pc = "loop"
    /\ loop_i < num_cores
    /\ LET e == end_idx(loop_i, Len(search_range), num_cores)
       IN  /\ idx_bins' = Append(idx_bins, e - 1)
           /\ IF HasLabel(search_range, e - 1)
              THEN /\ bins' = Append(bins, At(search_range, e - 1))
                   /\ loop_i' = loop_i + 1
                   /\ bins_pc' = "loop"
              ELSE /\ bins_pc' = "error"
                   /\ UNCHANGED <<bins, loop_i>>
    /\ UNCHANGED <<stage_vars, inputs, lookup_vars, tree_vars, num_cores>>

\* return bins[:-1], idx_bins
DfBinsReturn ==
    /\ bins_pc = "loop"
    /\ loop_i = num_cores
    /\ bins' = SubSeq(bins, 1, Len(bins) - 1)
    /\ bins_pc' = "returned"
    /\ UNCHANGED <<stage_vars, inputs, lookup_vars, tree_vars, num_cores, loop_i, idx_bins>>

NextDfBins == DfBinsIterate \/ DfBinsReturn

SpecDfBins == InitDfBins /\ [][NextDfBins]_vars

\* --------------------------------------------------------- get_value_bins
sorted_values_of(vals) ==
    [k \in 1..Len(vals) |-> sorted_enumerate(vals)[k].val]

\* np.quantile(values, i / num_cores) with linear interpolation, times
\* num_cores (so that it stays an integer): the position in the sorted
\* values is i * (m - 1) / num_cores.
scaled_quantile(vals, i, cores) ==
    LET s == sorted_values_of(vals)
        h == i * (Len(vals) - 1)
        lo == h \div cores
        r == h % cores
    IN  IF r = 0
        THEN cores * At(s, lo)
        ELSE cores * At(s, lo) + r * (At(s, lo + 1) - At(s, lo))

\* idx_bins = np.searchsorted(search_keys, quantiles), one entry per percentile
value_idx_bins(vals, keys, cores) ==
    LET scaled_keys == [j \in 1..Len(keys) |-> cores * keys[j]]
    IN  [k \in 1..(cores + 1) |->
            searchsorted(scaled_keys, scaled_quantile(vals, k - 1, cores))]

InitValueBins ==
    /\ RewriteIdle
    /\ CombineIdle
    /\ SortMergeIdle
    /\ search_range \in {s \in KeyColumns : Len(s) >= 1}
    /\ result_range = RowTags(Len(search_range))
    /\ values \in QueryColumns
    /\ LookupIdle
    /\ num_cores \in 1..MaxCores
    /\ loop_i = 0
    /\ idx_bins = <<>>
    /\ bins = <<>>
    /\ bins_pc = "idle"
    /\ TreeIdle

\* get_value_bins: np.take(search_keys, idx_bins) on the key ndarray raises
\* IndexError for an index >= len(search_keys).
GetValueBins ==
    /\ bins_pc = "idle"
    /\ LET idxs == value_idx_bins(values, search_range, num_cores)
       IN  /\ idx_bins' = idxs
           /\ IF \A k \in 1..Len(idxs) : PyIndexOk(search_range, idxs[k])
              THEN /\ bins' = [k \in 1..Len(idxs) |-> PyAt(search_range, idxs[k])]
                   /\ bins_pc' = "returned"
              ELSE /\ bins_pc' = "error"
                   /\ UNCHANGED bins
    /\ UNCHANGED <<stage_vars, inputs, lookup_vars, tree_vars, num_cores, loop_i>>

NextValueBins == GetValueBins

SpecValueBins == InitValueBins /\ [][NextValueBins]_vars

\* ------------------------------------------------------ executionnode.py
\* An execution node object.  kind is the class (FunctionExecutionNode,
\* RefExecutionNode, LitExecutionNode); a field a class does not have is
\* "None".  ExecutionNode.__init__ sets exec_context None, cores 1,
\* subtree_idx 0; RefExecutionNode.__init__ sets both offsets None;
\* FunctionExecutionNode.__init__ sets fr_rf_optimization NOOPT.
FunctionExecutionNode(function, ref, out_ref_type, out_ref_axis) ==
    [kind |-> "function", function |-> function, ref |-> ref, literal |-> "None",
     out_ref_type |-> out_ref_type, out_ref_axis |-> out_ref_axis,
     fr_rf_optimization |-> "NOOPT", children |-> <<>>,
     exec_context |-> "None", cores |-> 1, subtree_idx |-> 0,
     row_offset |-> "None", col_offset |-> "None"]

RefExecutionNode(ref, out_ref_type, out_ref_axis) ==
    [kind |-> "ref", function |-> "None", ref |-> ref, literal |-> "None",
     out_ref_type |-> out_ref_type, out_ref_axis |-> out_ref_axis,
     fr_rf_optimization |-> "None", children |-> <<>>,
     exec_context |-> "None", cores |-> 1, subtree_idx |-> 0,
     row_offset |-> "None", col_offset |-> "None"]

LitExecutionNode(literal, out_ref_type, out_ref_axis) ==
    [kind |-> "literal", function |-> "None", ref |-> "None", literal |-> literal,
     out_ref_type |-> out_ref_type, out_ref_axis |-> out_ref_axis,
     fr_rf_optimization |-> "None", children |-> <<>>,
     exec_context |-> "None", cores |-> 1, subtree_idx |-> 0,
     row_offset |-> "None", col_offset |-> "None"]

\* A new object gets the next free identity.
NewId(h) == Len(h) + 1

\* gen_exec_subtree returns [heap |-> the heap with the copy, id |-> the copy]
RECURSIVE gen_exec_subtree(_, _)
RECURSIVE gen_exec_subtree_children(_, _, _)

gen_exec_subtree_ref_shared(h, n) == [heap |-> h, id |-> n]

gen_exec_subtree_ref(h, n) ==
    [heap |-> Append(h, RefExecutionNode(h[n].ref, h[n].out_ref_type,
                                         h[n].out_ref_axis)),
     id |-> NewId(h)]

gen_exec_subtree_literal(h, n) ==
    [heap |-> Append(h, LitExecutionNode(h[n].literal, h[n].out_ref_type,
                                         h[n].out_ref_axis)),
     id |-> NewId(h)]

\* [child.gen_exec_subtree() for child in self.children], from child k on
gen_exec_subtree_children(h, kids, k) ==
    IF k > Len(kids)
    THEN [heap |-> h, ids |-> <<>>]
    ELSE LET first == gen_exec_subtree(h, kids[k])
             rest == gen_exec_subtree_children(first.heap, kids, k + 1)
         IN  [heap |-> rest.heap, ids |-> <<first.id>> \o rest.ids]

gen_exec_subtree_function(h, n) ==
    LET parent == NewId(h)
        made == [FunctionExecutionNode(h[n].function, h[n].ref, h[n].out_ref_type,
                                       h[n].out_ref_axis)
                    EXCEPT !.fr_rf_optimization = h[n].fr_rf_optimization]
        copied == gen_exec_subtree_children(Append(h, made), h[n].children, 1)
    IN  [heap |-> [copied.heap EXCEPT ![parent].children = copied.ids],
         id |-> parent]

gen_exec_subtree(h, n) ==
    IF h[n].kind = "function" THEN gen_exec_subtree_function(h, n)
    ELSE IF h[n].kind = "ref" THEN gen_exec_subtree_ref(h, n)
    ELSE gen_exec_subtree_literal(h, n)

\* set_exec_context returns the heap after the call
RECURSIVE set_exec_context(_, _, _)
RECURSIVE set_exec_context_children(_, _, _, _)

set_exec_context_children(h, kids, k, ctx) ==
    IF k > Len(kids) THEN h
    ELSE set_exec_context_children(set_exec_context(h, kids[k], ctx), kids, k + 1, ctx)

set_exec_context_function_only_self(h, n, ctx) == [h EXCEPT ![n].exec_context = ctx]

set_exec_context_function(h, n, ctx) ==
    set_exec_context_children([h EXCEPT ![n].exec_context = ctx],
                              h[n].children, 1, ctx)

set_exec_context_ref(h, n, ctx) == [h EXCEPT ![n].exec_context = ctx]

set_exec_context_literal(h, n, ctx) == h

set_exec_context(h, n, ctx) ==
    IF h[n].kind = "function" THEN set_exec_context_function(h, n, ctx)
    ELSE IF h[n].kind = "ref" THEN set_exec_context_ref(h, n, ctx)
    ELSE set_exec_context_literal(h, n, ctx)

\* set_metadata returns the heap after the call
RECURSIVE set_metadata(_, _, _, _)
RECURSIVE set_metadata_children(_, _, _, _, _)

set_metadata_children(h, kids, k, cores, subtree_idx) ==
    IF k > Len(kids) THEN h
    ELSE set_metadata_children(set_metadata(h, kids[k], cores, subtree_idx),
                               kids, k + 1, cores, subtree_idx)

set_metadata(h, n, cores, subtree_idx) ==
    IF h[n].kind = "function"
    THEN set_metadata_children(
             [h EXCEPT ![n].cores = cores, ![n].subtree_idx = subtree_idx],
             h[n].children, 1, cores, subtree_idx)
    ELSE IF h[n].kind = "ref"
         THEN [h EXCEPT ![n].cores = cores, ![n].subtree_idx = subtree_idx]
         ELSE h

set_offset(h, n, row_offset, col_offset) ==
    [h EXCEPT ![n].row_offset = row_offset, ![n].col_offset = col_offset]

\* The trees translated from the plans  f(ref, lit)  and  f(g(ref, lit), ref),
\* as from_plan_to_execution_tree builds them (parent first, then its
\* children in order), each function node with an optimization flag of its own.
PlanTrees ==
    { << [FunctionExecutionNode("f", "A1", "RR", "row")
             EXCEPT !.fr_rf_optimization = "FR", !.children = <<2, 3>>],
         RefExecutionNode("B1:B3", "RR", "row"),
         LitExecutionNode("7", "LIT", "none") >>,
      << [FunctionExecutionNode("f", "A1", "RR", "row")
             EXCEPT !.fr_rf_optimization = "RF", !.children = <<2, 5>>],
         [FunctionExecutionNode("g", "A1", "RF", "col")
             EXCEPT !.fr_rf_optimization = "FR", !.children = <<3, 4>>],
         RefExecutionNode("B1:B3", "RF", "col"),
         LitExecutionNode("7", "LIT", "none"),
         RefExecutionNode("C1", "FF", "row") >> }

Contexts == {"ctxA", "ctxB"}
Metadata == {<<2, 1>>}
Offsets == {<<"row1", "col1">>}

InitTree ==
    /\ RewriteIdle
    /\ CombineIdle
    /\ SortMergeIdle
    /\ InputsIdle
    /\ LookupIdle
    /\ BinsIdle
    /\ heap \in PlanTrees
    /\ roots = <<1>>
    /\ last = NoTreeCall
    /\ calls = 0

\* A partition clone of T.
GenExecSubtree ==
    /\ Len(roots) < 1 + MaxClones
    /\ LET made == gen_exec_subtree(heap, roots[1])
       IN  /\ heap' = made.heap
           /\ roots' = Append(roots, made.id)
           /\ last' = [op |-> "gen_exec_subtree", node |-> made.id, ctx |-> "None"]
    /\ UNCHANGED <<stage_vars, inputs, lookup_vars, bins_vars, calls>>

SetExecContext ==
    /\ calls < MaxCalls
    /\ \E n \in DOMAIN heap, ctx \in Contexts :
          /\ heap' = set_exec_context(heap, n, ctx)
          /\ last' = [op |-> "set_exec_context", node |-> n, ctx |-> ctx]
    /\ calls' = calls + 1
    /\ UNCHANGED <<stage_vars, inputs, lookup_vars, bins_vars, roots>>

SetMetadata ==
    /\ calls < MaxCalls
    /\ \E n \in DOMAIN heap, m \in Metadata :
          /\ heap' = set_metadata(heap, n, m[1], m[2])
          /\ last' = [op |-> "set_metadata", node |-> n, ctx |-> "None"]
    /\ calls' = calls + 1
    /\ UNCHANGED <<stage_vars, inputs, lookup_vars, bins_vars, roots>>

SetOffset ==
    /\ calls < MaxCalls
    /\ \E n \in DOMAIN heap, o \in Offsets :
          /\ heap[n].kind = "ref"
          /\ heap' = set_offset(heap, n, o[1], o[2])
          /\ last' = [op |-> "set_offset", node |-> n, ctx |-> "None"]
    /\ calls' = calls + 1
    /\ UNCHANGED <<stage_vars, inputs, lookup_vars, bins_vars, roots>>

NextTree == GenExecSubtree \/ SetExecContext \/ SetMetadata \/ SetOffset

SpecTree == InitTree /\ [][NextTree]_vars

\* ------------------------------------------------------------ plan rewriter
\* The length of full_rewriting_rule_list is at most MaxRules.
MaxRules == 2

\* A plan node object: its children (node ids, in child order) and its parent
\* back-reference (0 is None).
PlanNode(children, parent) == [children |-> children, parent |-> parent]

\* rule.rewrite(node).  The rules are defined outside this layer; a rule may
\* return the node itself, a new node that takes over the node's children, a
\* new leaf, or the node's first child.  A rule leaves parent back-references
\* as they are: apply_one_rule is what repairs them.
RuleRewrite(nodes, n) ==
    { [nodes |-> nodes, out |-> n],
      [nodes |-> Append(nodes, PlanNode(nodes[n].children, 0)), out |-> Len(nodes) + 1],
      [nodes |-> Append(nodes, PlanNode(<<>>, 0)), out |-> Len(nodes) + 1] }
    \cup (IF nodes[n].children = <<>>
          THEN {}
          ELSE { [nodes |-> nodes, out |-> nodes[n].children[1]] })

set_children_keep_parents(nodes, new_plan_tree, new_children) ==
    [nodes EXCEPT ![new_plan_tree].children = new_children]

\* new_plan_tree.children = new_children
\* for new_child in new_children: new_child.parent = new_plan_tree
set_children(nodes, new_plan_tree, new_children) ==
    LET attached == [nodes EXCEPT ![new_plan_tree].children = new_children]
    IN  [n \in DOMAIN attached |->
            IF \E k \in 1..Len(new_children) : new_children[k] = n
            THEN [attached[n] EXCEPT !.parent = new_plan_tree]
            ELSE attached[n]]

\* The plans handed to rewrite_plan: node 1 is root, and every child's parent
\* back-reference points at its parent.
RewriteInputs ==
    { << PlanNode(<<>>, 0) >>,
      << PlanNode(<<2, 3>>, 0), PlanNode(<<>>, 1), PlanNode(<<>>, 1) >>,
      << PlanNode(<<2>>, 0), PlanNode(<<3>>, 1), PlanNode(<<>>, 2) >>,
      << PlanNode(<<2, 3>>, 0), PlanNode(<<4>>, 1), PlanNode(<<>>, 1),
         PlanNode(<<>>, 2) >> }

\* One entry of the rule log: rule number `rule` (1-based position in
\* full_rewriting_rule_list) was invoked on node arg and returned node out.
\* role is "root" for line 22 and "child" for line 23; pos is the child's
\* position; kids is the child list of the rewritten root when it was returned.
Invoked(rule, role, pos, arg, out, kids) ==
    [rule |-> rule, role |-> role, pos |-> pos, arg |-> arg, out |-> out, kids |-> kids]

InitRewrite ==
    /\ InputsIdle
    /\ LookupIdle
    /\ BinsIdle
    /\ TreeIdle
    /\ CombineIdle
    /\ SortMergeIdle
    /\ \E e \in BOOLEAN, r \in 0..MaxRules, t \in RewriteInputs :
          rw = [pc |-> "rewrite_plan", enable_rewriting |-> e, num_rules |-> r,
                nodes |-> t, root |-> 1, plan_tree |-> 0, rule |-> 0,
                new_plan_tree |-> 0, new_children |-> <<>>, log |-> <<>>,
                returned |-> 0]

\* plan_tree = root; if self.forms_config.enable_rewriting: for rule in ...
RewritePlanEnter ==
    /\ rw.pc = "rewrite_plan"
    /\ rw' = [rw EXCEPT !.plan_tree = rw.root,
                        !.rule = 1,
                        !.pc = IF rw.enable_rewriting THEN "for" ELSE "return"]
    /\ UNCHANGED <<inputs, lookup_vars, bins_vars, tree_vars, comb, sm>>

\* apply_one_rule: new_plan_tree = rule.rewrite(plan_tree)
ApplyRuleRoot ==
    /\ rw.pc = "for"
    /\ rw.rule <= rw.num_rules
    /\ \E o \in RuleRewrite(rw.nodes, rw.plan_tree) :
          rw' = [rw EXCEPT !.nodes = o.nodes,
                           !.new_plan_tree = o.out,
                           !.new_children = <<>>,
                           !.log = Append(rw.log,
                                      Invoked(rw.rule, "root", 0, rw.plan_tree, o.out,
                                              o.nodes[o.out].children)),
                           !.pc = "children"]
    /\ UNCHANGED <<inputs, lookup_vars, bins_vars, tree_vars, comb, sm>>

\* apply_one_rule: one element of [rule.rewrite(child) for child in
\* new_plan_tree.children]
ApplyRuleChild ==
    /\ rw.pc = "children"
    /\ Len(rw.new_children) < Len(rw.nodes[rw.new_plan_tree].children)
    /\ LET pos == Len(rw.new_children) + 1
           child == rw.nodes[rw.new_plan_tree].children[pos]
       IN  \E o \in RuleRewrite(rw.nodes, child) :
              rw' = [rw EXCEPT !.nodes = o.nodes,
                               !.new_children = Append(rw.new_children, o.out),
                               !.log = Append(rw.log,
                                          Invoked(rw.rule, "child", pos, child, o.out, <<>>))]
    /\ UNCHANGED <<inputs, lookup_vars, bins_vars, tree_vars, comb, sm>>

\* apply_one_rule, lines 24-27, and the assignment to plan_tree in rewrite_plan
ApplyRuleLink ==
    /\ rw.pc = "children"
    /\ Len(rw.new_children) = Len(rw.nodes[rw.new_plan_tree].children)
    /\ rw' = [rw EXCEPT !.nodes = set_children(rw.nodes, rw.new_plan_tree, rw.new_children),
                        !.plan_tree = rw.new_plan_tree,
                        !.rule = rw.rule + 1,
                        !.pc = "for"]
    /\ UNCHANGED <<inputs, lookup_vars, bins_vars, tree_vars, comb, sm>>

\* return plan_tree
RewritePlanReturn ==
    /\ \/ rw.pc = "return"
       \/ rw.pc = "for" /\ rw.rule > rw.num_rules
    /\ rw' = [rw EXCEPT !.returned = rw.plan_tree, !.pc = "done"]
    /\ UNCHANGED <<inputs, lookup_vars, bins_vars, tree_vars, comb, sm>>

NextRewrite ==
    \/ RewritePlanEnter
    \/ ApplyRuleRoot
    \/ ApplyRuleChild
    \/ ApplyRuleLink
    \/ RewritePlanReturn

SpecRewrite == InitRewrite /\ [][NextRewrite]_vars

\* ---------------------------------------------------------- combine_results
\* The number of partition results handed to combine_results is MaxParts.
MaxParts == 2

\* An array element: the number val2 / 2 (so that 1.5 is representable), NaN,
\* a slot of np.empty that was never written, or the unspecified integer that
\* a cast of NaN to int64 leaves behind.
Num(val2) == [kind |-> "num", val2 |-> val2]
NaN == [kind |-> "nan", val2 |-> 0]
Uninitialized == [kind |-> "uninit", val2 |-> 0]
Unspecified == [kind |-> "unspecified", val2 |-> 0]

\* The values a partition's result column of the given dtype can hold.
ColumnValues(dtype) ==
    IF dtype = "int64" THEN {Num(2), Num(4)} ELSE {Num(2), Num(3), NaN}

\* One partition result r: r.index holds the original row positions of its
\* rows, r.vals its single column; a result without rows has no column
\* (len(r.dtypes) == 0).
PartitionResult(index, vals, dtype) ==
    [index |-> index, vals |-> vals,
     dtypes |-> IF index = <<>> THEN <<>> ELSE <<dtype>>]

\* The rows i in lo..hi-1 with owner[i] = p, ascending.
RECURSIVE rows_of(_, _, _, _)
rows_of(owner, p, lo, hi) ==
    IF lo >= hi THEN <<>>
    ELSE (IF owner[lo] = p THEN <<lo>> ELSE <<>>) \o rows_of(owner, p, lo + 1, hi)

\* np.put converts the values to the array's dtype with a forced cast: a
\* float is truncated towards zero (the numbers here are not negative), NaN
\* becomes an unspecified integer.
force_cast(dtype, v) ==
    IF dtype = "int64"
    THEN (IF v.kind = "nan" THEN Unspecified
          ELSE IF v.kind = "num" THEN Num(2 * (v.val2 \div 2))
          ELSE v)
    ELSE v

\* np.put(result, ind, v), elements k.. of ind: result.flat[ind[k]] = v[k]
RECURSIVE np_put_from(_, _, _, _, _)
np_put_from(result, ind, v, dtype, k) ==
    IF k > Len(ind) THEN result
    ELSE np_put_from([result EXCEPT ![ind[k] + 1] = force_cast(dtype, v[k])],
                     ind, v, dtype, k + 1)

np_put(result, ind, v, dtype) == np_put_from(result, ind, v, dtype, 1)

\* dtypes = [r.dtypes[0] for r in results if len(r.dtypes) > 0]
\* dtype = object if len(dtypes) == 0 else dtypes[0]
result_dtype(results) ==
    LET dtypes == SelectSeq(results, LAMBDA r : Len(r.dtypes) > 0)
    IN  IF Len(dtypes) = 0 THEN "object" ELSE dtypes[1].dtypes[1]

\* for r in results: np.put(result, r.index, r), results k.. of the list
RECURSIVE combine_from(_, _, _, _)
combine_from(result, results, dtype, k) ==
    IF k > Len(results) THEN result
    ELSE combine_from(np_put(result, results[k].index, results[k].vals, dtype),
                      results, dtype, k + 1)

\* result = np.empty(size, dtype=dtype); ...; return pd.DataFrame(result)
combine_results(results, size) ==
    combine_from([i \in 1..size |-> Uninitialized], results, result_dtype(results), 1)

\* The orders in which the MaxParts partition results can be supplied.
Orders ==
    { o \in [1..MaxParts -> 1..MaxParts] : \A p, q \in 1..MaxParts : o[p] = o[q] => p = q }

NoCombine == [order |-> <<>>, out |-> <<>>]

\* size rows; owner[i] is the partition that computed row i and computed[i]
\* the value it computed; results[p] is partition p's result.
InitCombine ==
    /\ InputsIdle
    /\ LookupIdle
    /\ BinsIdle
    /\ TreeIdle
    /\ RewriteIdle
    /\ SortMergeIdle
    /\ \E size \in 1..MaxSize :
       \E owner \in [0..(size - 1) -> 1..MaxParts],
          dtype \in [1..MaxParts -> {"int64", "float64"}] :
       \E computed \in [0..(size - 1) -> ColumnValues("int64") \cup ColumnValues("float64")] :
          /\ \A i \in 0..(size - 1) : computed[i] \in ColumnValues(dtype[owner[i]])
          /\ \A p \in 1..MaxParts : rows_of(owner, p, 0, size) = <<>> => dtype[p] = "int64"
          /\ comb = [pc |-> "ready", size |-> size, computed |-> computed,
                     results |-> [p \in 1..MaxParts |->
                                   LET index == rows_of(owner, p, 0, size)
                                   IN  PartitionResult(index,
                                          [k \in 1..Len(index) |-> computed[index[k]]],
                                          dtype[p])],
                     call |-> NoCombine, prev_call |-> NoCombine]

\* combine_results(results, size) with the partition results in some order
CombineResults ==
    /\ comb.pc = "ready"
    /\ \E o \in Orders :
          comb' = [comb EXCEPT
                     !.call = [order |-> o,
                               out |-> combine_results(
                                          [k \in 1..MaxParts |-> comb.results[o[k]]],
                                          comb.size)],
                     !.prev_call = comb.call]
    /\ UNCHANGED <<inputs, lookup_vars, bins_vars, tree_vars, rw, sm>>

NextCombine == CombineResults

SpecCombine == InitCombine /\ [][NextCombine]_vars

\* ------------------------------------------- lookup_sort_merge, step by step
\* The loops of lookup_sort_merge, one test of a loop condition per step, on
\* search_range, result_range and values.  sm.numeric tells whether the keys
\* and queries are numbers or values of another totally ordered type (strings),
\* whose order the integers stand for; only the comparison with np.infty
\* tells the two apart.  sm.visits[i] counts the passes of the fill loop over
\* original query position i - 1, sm.iter_start is left_idx at the start of
\* the current outer iteration, sm.prev_right_idx is right_idx before the last
\* step and sm.steps counts the steps.
Infty == [infty |-> TRUE, val |-> 0]
Finite(v) == [infty |-> FALSE, val |-> v]

\* sorted_values[left_idx][1] < stop_val, for a number
less_than_stop(v, stop_val) == stop_val.infty \/ v < stop_val.val

SortMergeQueries == SeqsUpTo(0..(MaxKey + 1), MaxQueries)

InitSortMerge ==
    /\ LookupIdle
    /\ BinsIdle
    /\ TreeIdle
    /\ RewriteIdle
    /\ CombineIdle
    /\ search_range \in KeyColumns
    /\ result_range = RowTags(Len(search_range))
    /\ values \in SortMergeQueries
    /\ \E numeric \in BOOLEAN :
          sm = [pc |-> "while", numeric |-> numeric,
                sorted_values |-> sorted_enumerate(values),
                left_idx |-> 0, right_idx |-> 0,
                searching_val |-> 0, stop_val |-> Infty,
                df_arr |-> [i \in 1..Len(values) |-> Missing],
                visits |-> [i \in 1..Len(values) |-> 0],
                iter_start |-> 0, prev_right_idx |-> 0, steps |-> 0]

\* while left_idx < len(values): searching_val = sorted_values[left_idx][1]
SortMergeEnterIteration ==
    /\ sm.pc = "while"
    /\ sm.left_idx < Len(values)
    /\ sm' = [sm EXCEPT !.searching_val = At(sm.sorted_values, sm.left_idx).val,
                        !.iter_start = sm.left_idx,
                        !.prev_right_idx = sm.right_idx,
                        !.steps = sm.steps + 1,
                        !.pc = "advance"]
    /\ UNCHANGED <<inputs, lookup_vars, bins_vars, tree_vars, rw, comb>>

\* while right_idx < len(search_range) and search_range[right_idx] <= searching_val:
\*     right_idx += 1
\* stop_val = search_range[right_idx] if right_idx < len(search_range) else np.infty
SortMergeAdvanceRight ==
    /\ sm.pc = "advance"
    /\ IF sm.right_idx < Len(search_range) /\ At(search_range, sm.right_idx) <= sm.searching_val
       THEN sm' = [sm EXCEPT !.right_idx = sm.right_idx + 1,
                             !.prev_right_idx = sm.right_idx,
                             !.steps = sm.steps + 1]
       ELSE sm' = [sm EXCEPT !.stop_val = IF sm.right_idx < Len(search_range)
                                          THEN Finite(At(search_range, sm.right_idx))
                                          ELSE Infty,
                             !.prev_right_idx = sm.right_idx,
                             !.steps = sm.steps + 1,
                             !.pc = "fill"]
    /\ UNCHANGED <<inputs, lookup_vars, bins_vars, tree_vars, rw, comb>>

\* while left_idx < len(values) and sorted_values[left_idx][1] < stop_val:
\*     if right_idx != 0: df_arr[sorted_values[left_idx][0]] = result_range[right_idx - 1]
\*     left_idx += 1
\* A value that is not a number cannot be compared with the float np.infty:
\* the test raises TypeError.
SortMergeFill ==
    /\ sm.pc = "fill"
    /\ IF sm.left_idx >= Len(values)
       THEN sm' = [sm EXCEPT !.prev_right_idx = sm.right_idx,
                             !.steps = sm.steps + 1,
                             !.pc = "while"]
       ELSE IF sm.stop_val.infty /\ ~sm.numeric
       THEN sm' = [sm EXCEPT !.prev_right_idx = sm.right_idx,
                             !.steps = sm.steps + 1,
                             !.pc = "error"]
       ELSE IF less_than_stop(At(sm.sorted_values, sm.left_idx).val, sm.stop_val)
       THEN LET pos == At(sm.sorted_values, sm.left_idx).pos
            IN  sm' = [sm EXCEPT !.df_arr = IF sm.right_idx # 0
                                            THEN [sm.df_arr EXCEPT ![pos + 1] =
                                                     Found(At(result_range, sm.right_idx - 1))]
                                            ELSE sm.df_arr,
                                 !.visits = [sm.visits EXCEPT ![pos + 1] = @ + 1],
                                 !.left_idx = sm.left_idx + 1,
                                 !.prev_right_idx = sm.right_idx,
                                 !.steps = sm.steps + 1]
       ELSE sm' = [sm EXCEPT !.prev_right_idx = sm.right_idx,
                             !.steps = sm.steps + 1,
                             !.pc = "while"]
    /\ UNCHANGED <<inputs, lookup_vars, bins_vars, tree_vars, rw, comb>>

\* return pd.DataFrame(df_arr)
SortMergeReturn ==
    /\ sm.pc = "while"
    /\ sm.left_idx >= Len(values)
    /\ sm' = [sm EXCEPT !.prev_right_idx = sm.right_idx,
                        !.steps = sm.steps + 1,
                        !.pc = "done"]
    /\ UNCHANGED <<inputs, lookup_vars, bins_vars, tree_vars, rw, comb>>

NextSortMerge ==
    \/ SortMergeEnterIteration
    \/ SortMergeAdvanceRight
    \/ SortMergeFill
    \/ SortMergeReturn

SpecSortMerge == InitSortMerge /\ [][NextSortMerge]_vars

\* --------------------------------------------------- lookup properties
Called(c) == c.impl # "none"
Returned(c) == Called(c) /\ c.res.status = "ok"

\* The query key behind row i of a call (the broadcast variant has one key).
QueryOf(c, i) == IF c.impl = "vlookup_approx_constants" THEN values[1] ELSE values[i]

\* j is the index with K[j] <= v and (j = len(K)-1 or K[j+1] > v)
IsLastLE(sr, v, j) ==
    /\ At(sr, j) <= v
    /\ (j = Len(sr) - 1 \/ At(sr, j + 1) > v)

\* C1: on a non-empty sorted key column the production path
\* (lookup_df_executor -> lookup_binary_search_np_vector) returns missing for
\* a query v iff v < K[0], and otherwise resultRange[j] for the unique j with
\* K[j] <= v and (j = len(K)-1 or K[j+1] > v).
C1_ProductionLookupReturnsLastLE ==
    (call.impl = "lookup_df_executor" /\ Len(search_range) > 0) =>
        /\ call.res.status = "ok"
        /\ \A i \in 1..Len(values) :
              /\ call.res.rows[i].missing <=> (values[i] < At(search_range, 0))
              /\ ~call.res.rows[i].missing =>
                    \E j \in 0..(Len(search_range) - 1) :
                        /\ IsLastLE(search_range, values[i], j)
                        /\ call.res.rows[i].val = At(result_range, j)

\* C2: on identical inputs with a non-empty sorted key column, any two
\* lookup implementations return the same per-row outcome (the broadcast
\* variant compared when its size is the number of queries).
Comparable(c) ==
    /\ Called(c)
    /\ (c.impl = "vlookup_approx_constants" => c.size = Len(values))

C2_AllImplementationsAgree ==
    (Len(search_range) > 0 /\ Comparable(call) /\ Comparable(prev_call)) =>
        call.res = prev_call.res

\* C3: in every implementation a query below the minimum key of a non-empty
\* key column yields the missing marker for its row.
C3_BelowMinimumIsMissing ==
    (Len(search_range) > 0 /\ Returned(call)) =>
        \A i \in 1..Len(call.res.rows) :
            QueryOf(call, i) < At(search_range, 0) => call.res.rows[i].missing

\* C4: every implementation called with an empty key column and at least one
\* query ends in a fatal failure.
C4_EmptyKeyColumnIsFatal ==
    (Called(call) /\ Len(search_range) = 0) => call.res.status = "error"

\* C5: in every implementation (the broadcast variant at every size >= 1) a
\* query equal to some key returns the value of a row whose key equals it.
C5_ExactTieReturnsMatchedRow ==
    (Len(search_range) > 0 /\ Returned(call)) =>
        \A i \in 1..Len(call.res.rows) :
            (\E j \in 1..Len(search_range) : search_range[j] = QueryOf(call, i)) =>
                /\ ~call.res.rows[i].missing
                /\ \E j \in 1..Len(search_range) :
                      /\ search_range[j] = QueryOf(call, i)
                      /\ call.res.rows[i].val = result_range[j]

\* ----------------------------------------------------- bins properties
RowCount == Len(search_range)

\* The interior boundary indices: idx_bins without its leading 0 and its
\* last entry (the boundary at the end of the table).
InteriorIdxBins == SubSeq(idx_bins, 2, Len(idx_bins) - 1)

StrictlyIncreasing(s) == \A k \in 1..(Len(s) - 1) : s[k] < s[k + 1]
NonDecreasing(s) == \A k \in 1..(Len(s) - 1) : s[k] <= s[k + 1]

\* C6: for every rowCount >= 1 and numCores >= 1 get_df_bins returns
\* boundary indices that are strictly increasing, lie in [0, rowCount-1] and
\* number numCores - 1: no call fails, no index computed is outside the
\* table, and the returned interior boundaries are numCores - 1 increasing
\* indices.
C6_IndexBinsIncreasingInRange ==
    /\ bins_pc # "error"
    /\ \A k \in 1..Len(idx_bins) : 0 <= idx_bins[k] /\ idx_bins[k] <= RowCount - 1
    /\ bins_pc = "returned" =>
          /\ Len(InteriorIdxBins) = num_cores - 1
          /\ StrictlyIncreasing(InteriorIdxBins)

\* C7 as stated: the i-th interior boundary index is (i * rowCount) div
\* numCores, the last boundary is rowCount - 1, and numCores = 4,
\* rowCount = 10 give [2, 5, 7].
C7_InteriorBoundaryAtQuotient ==
    bins_pc = "returned" =>
        /\ \A i \in 1..(num_cores - 1) :
              At(idx_bins, i) = (i * RowCount) \div num_cores
        /\ At(idx_bins, num_cores) = RowCount - 1
        /\ (num_cores = 4 /\ RowCount = 10) => InteriorIdxBins = <<2, 5, 7>>

\* C7 amended: the i-th boundary index appended by get_df_bins is
\* (i * rowCount) div numCores - 1 (the last row of block i), so that the
\* last boundary is rowCount - 1 and numCores = 4, rowCount = 10 give the
\* interior boundaries [1, 4, 6].
C7_InteriorBoundaryAtQuotientMinusOne ==
    /\ \A i \in 1..(Len(idx_bins) - 1) :
          At(idx_bins, i) = (i * RowCount) \div num_cores - 1
    /\ bins_pc = "returned" =>
          /\ Len(idx_bins) = num_cores + 1
          /\ At(idx_bins, num_cores) = RowCount - 1
          /\ (num_cores = 4 /\ RowCount = 10) => InteriorIdxBins = <<1, 4, 6>>

C7_Witness ==
    /\ bins_pc = "returned"
    /\ num_cores = 4
    /\ RowCount = 10
    /\ idx_bins = <<0, 1, 4, 6, 9>>

\* C8: for a non-empty sorted key column, non-empty queries and
\* numCores >= 1, get_value_bins returns boundary indices that are
\* non-decreasing and never exceed rowCount - 1, so that the boundary key
\* values can be read at them.
C8_ValueBinsWithinRows ==
    bins_pc # "idle" =>
        /\ bins_pc = "returned"
        /\ NonDecreasing(idx_bins)
        /\ \A k \in 1..Len(idx_bins) : idx_bins[k] <= RowCount - 1

\* ----------------------------------------------------- tree properties
\* The node n and all its descendants.
RECURSIVE Subtree(_, _)
Subtree(h, n) ==
    {n} \cup UNION {Subtree(h, h[n].children[k]) : k \in 1..Len(h[n].children)}

RECURSIVE SameStructure(_, _, _)
SameStructure(h, a, b) ==
    /\ h[a].kind = h[b].kind
    /\ h[a].function = h[b].function
    /\ h[a].ref = h[b].ref
    /\ h[a].literal = h[b].literal
    /\ h[a].out_ref_type = h[b].out_ref_type
    /\ h[a].out_ref_axis = h[b].out_ref_axis
    /\ h[a].fr_rf_optimization = h[b].fr_rf_optimization
    /\ Len(h[a].children) = Len(h[b].children)
    /\ \A k \in 1..Len(h[a].children) :
          SameStructure(h, h[a].children[k], h[b].children[k])

\* Every clone has the structure and identities of T and is built from node
\* objects of its own.
ClonesMirrorT ==
    /\ \A i \in 2..Len(roots) : SameStructure(heap, roots[1], roots[i])
    /\ \A i, j \in 1..Len(roots) :
          i # j => Subtree(heap, roots[i]) \cap Subtree(heap, roots[j]) = {}

\* A call changes no node of a tree it is not applied to.
OtherTreesUntouched ==
    \A i \in 1..Len(roots) :
        last'.node \notin Subtree(heap, roots[i]) =>
            \A n \in Subtree(heap, roots[i]) : heap'[n] = heap[n]

\* C10: a clone made by gen_exec_subtree has the node kinds, child counts and
\* order, function / reference / literal identities and optimization flags
\* of T and consists of fresh node objects; every set_exec_context,
\* set_metadata and set_offset call on T or on one of two clones leaves the
\* context, metadata, offsets and children of the other trees unchanged.
C10_ClonesAreIsolatedCopies ==
    []ClonesMirrorT /\ [][OtherTreesUntouched]_vars

\* T and two clones exist; ctxA was propagated through T and ctxB was then
\* propagated through the first clone: T still holds ctxA everywhere and the
\* second clone holds no context.
C10_Witness ==
    /\ Len(roots) = 3
    /\ last = [op |-> "set_exec_context", node |-> roots[2], ctx |-> "ctxB"]
    /\ \A n \in Subtree(heap, roots[1]) :
          heap[n].kind # "literal" => heap[n].exec_context = "ctxA"
    /\ \A n \in Subtree(heap, roots[2]) :
          heap[n].kind # "literal" => heap[n].exec_context = "ctxB"
    /\ \A n \in Subtree(heap, roots[3]) : heap[n].exec_context = "None"

\* --------------------------------------------------- plan rewriter properties
\* The invocations of rule number r, in the order they were made.
RuleBlock(r) == SelectSeq(rw.log, LAMBDA e : e.rule = r)

\* The node rule number r is given as root: root for the first rule, the
\* previous rule's rewritten root afterwards.
CurrentRoot(r) ==
    IF r = 1 \/ RuleBlock(r - 1) = <<>> THEN rw.root ELSE RuleBlock(r - 1)[1].out

\* Rule r ran once on the current root and then once on each immediate child
\* of its rewritten root, in child order.
RootThenChildrenInOrder(r) ==
    LET b == RuleBlock(r)
    IN  /\ Len(b) >= 1
        /\ b[1].role = "root"
        /\ b[1].arg = CurrentRoot(r)
        /\ Len(b) = 1 + Len(b[1].kids)
        /\ \A j \in 1..Len(b[1].kids) :
              /\ b[j + 1].role = "child"
              /\ b[j + 1].pos = j
              /\ b[j + 1].arg = b[1].kids[j]

RulesInListOrder ==
    /\ \A p \in 1..Len(rw.log) : rw.log[p].rule \in 1..rw.num_rules
    /\ \A p, q \in 1..Len(rw.log) : p < q => rw.log[p].rule <= rw.log[q].rule

ChildrenPointBack ==
    \A k \in 1..Len(rw.nodes[rw.returned].children) :
        rw.nodes[rw.nodes[rw.returned].children[k]].parent = rw.returned

\* C11: when rewrite_plan has returned: with rewriting disabled it returned
\* root itself and invoked no rule; with rewriting enabled the rules were
\* invoked in list order, each exactly once on the current root and then
\* exactly once on each immediate child of its rewritten root in child order,
\* and the last rewritten root is what is returned; in both cases every
\* immediate child of the returned node has the returned node as parent.
C11_RulesInOrderAndChildrenPointBack ==
    rw.pc = "done" =>
        /\ ~rw.enable_rewriting => rw.returned = rw.root /\ rw.log = <<>>
        /\ rw.enable_rewriting =>
              /\ RulesInListOrder
              /\ \A r \in 1..rw.num_rules : RootThenChildrenInOrder(r)
              /\ rw.returned = CurrentRoot(rw.num_rules + 1)
        /\ ChildrenPointBack

\* Two rules ran, the root was replaced, and a rule ran on two children.
C11_Witness ==
    /\ rw.pc = "done"
    /\ rw.enable_rewriting
    /\ rw.num_rules >= 2
    /\ rw.returned # rw.root
    /\ Len(RuleBlock(2)) >= 3
    /\ \E k \in 1..Len(rw.nodes[rw.returned].children) :
          rw.nodes[rw.returned].children[k] > 4

\* The return without a rule: rewriting is disabled.
C11_WitnessDisabled ==
    rw.pc = "done" /\ ~rw.enable_rewriting /\ rw.nodes[rw.root].children # <<>>

\* ------------------------------------------------- combine_results properties
Combined(c) == c.order # <<>>

\* Position i of the output holds the value computed for original row i.
RestoresRows(c) ==
    \A i \in 0..(comb.size - 1) : At(c.out, i) = comb.computed[i]

\* C12: the partition results' row-index sets are pairwise disjoint and cover
\* 0..size-1; then position i of combine_results' output holds the value the
\* owning partition computed for row i, and two calls that supply the results
\* in different orders return the same output.
C12_CombineRestoresRowsInAnyOrder ==
    /\ Combined(comb.call) => RestoresRows(comb.call)
    /\ Combined(comb.call) /\ Combined(comb.prev_call) =>
          comb.call.out = comb.prev_call.out

\* The partition results with a column all have the dtype of the output.
SameDtypes ==
    \A p \in 1..MaxParts :
        comb.results[p].dtypes = <<>> \/ comb.results[p].dtypes[1] = "float64"

\* When no partition result is int64, C12's statement holds.
CombineRestoresFloatRows ==
    SameDtypes => C12_CombineRestoresRowsInAnyOrder

\* ----------------------------------------------- lookup_sort_merge properties
\* The call stops only by returning, and within a number of steps fixed by the
\* lengths of the inputs (three per outer iteration, one per increment of
\* either pointer, one for the return).
SortMergeTerminates ==
    /\ sm.pc = "done" \/ ENABLED NextSortMerge
    /\ sm.steps <= 4 * Len(values) + Len(search_range) + 1

\* An outer iteration that has ended has advanced left_idx by at least one.
OuterIterationAdvances ==
    sm.pc = "while" /\ sm.steps > 0 => sm.left_idx > sm.iter_start

RightIdxMonotoneAndBounded ==
    /\ sm.right_idx >= sm.prev_right_idx
    /\ sm.right_idx <= Len(search_range)

ExitVisitedEveryQueryOnce ==
    sm.pc = "done" =>
        /\ sm.left_idx = Len(values)
        /\ \A i \in 1..Len(values) : sm.visits[i] = 1

\* C13: for a key column sorted ascending and queries of a totally ordered
\* type, lookup_sort_merge terminates: every outer iteration advances
\* left_idx by at least one, right_idx never decreases and never exceeds
\* len(K), and at exit left_idx = len(values) with every query position
\* visited exactly once.
C13_SortMergeTerminates ==
    /\ SortMergeTerminates
    /\ OuterIterationAdvances
    /\ RightIdxMonotoneAndBounded
    /\ ExitVisitedEveryQueryOnce

\* For numbers C13's statement holds.
SortMergeTerminatesOnNumbers ==
    sm.numeric => C13_SortMergeTerminates

\* The step-by-step run returns what the operator lookup_sort_merge computes.
SortMergeStepsAgree ==
    sm.pc = "done" =>
        Ok(sm.df_arr) = lookup_sort_merge(values, search_range, result_range)

====
